---- MODULE Spec2Model ----
\* jellyfin-rs: the client's session record, the user endpoint methods and
\* the header formatter of src/user.rs, the constructors of src/lib.rs and the
\* error-body decoder of src/utils.rs.
EXTENDS Bags, FiniteSets, Integers, Sequences, TLC

\* ------------------------------------------------------------------ bounds
\* Calls of one client that may be awaiting their response at the same time.
MaxInFlight == 2
\* Calls made on the client in one run.
MaxCalls == 3
\* Longest message list of one entry of an "errors" object.
MaxMsgs == 2

\* ------------------------------------------------------- Option and Result
\* Option<T>: None is the empty tuple, Some(x) the one-element tuple.
None == <<>>
Some(x) == <<x>>
\* Result<T, E>
Ok(v) == [ok |-> v]
Err(e) == [err |-> e]
is_ok(r) == "ok" \in DOMAIN r

\* ------------------------------------------------------------- JSON values
\* serde_json::Value: a string, a number, an array or an object (a function
\* from its keys to values).
Str(s) == [str |-> s]
Num(n) == [num |-> n]
Arr(q) == [arr |-> q]
Obj(f) == [obj |-> f]
\* Value::as_str, Value::as_array, Value::as_object, Value::get(key)
as_str(v) == IF "str" \in DOMAIN v THEN Some(v.str) ELSE None
as_array(v) == IF "arr" \in DOMAIN v THEN Some(v.arr) ELSE None
as_object(v) == IF "obj" \in DOMAIN v THEN Some(v.obj) ELSE None
get(v, key) ==
    IF "obj" \in DOMAIN v /\ key \in DOMAIN v.obj THEN Some(v.obj[key]) ELSE None
\* Value::get(key) followed by as_str, by as_object
get_str(v, key) == IF get(v, key) = None THEN None ELSE as_str(get(v, key)[1])
get_object(v, key) == IF get(v, key) = None THEN None ELSE as_object(get(v, key)[1])

\* A response body is its raw text: text that is not JSON, or the text of a
\* JSON value.
Text(s) == [text |-> s]
Json(v) == [json |-> v]
\* String::default()
EmptyBody == Text("")
\* The body of a response whose bytes cannot be read to the end.
Unreadable == [unreadable |-> TRUE]

\* serde_json::from_str::<Value>(&body): fails on text that is not JSON (the
\* empty text included).
from_str(body) == IF "json" \in DOMAIN body THEN Ok(body.json) ELSE Err("syntax")

\* Response::text(): the body text, or an error when the body cannot be read.
text(resp) == IF resp.body = Unreadable THEN Err("body") ELSE Ok(resp.body)
\* Result::unwrap_or_default on a Result<String, _>
unwrap_or_default(r) == IF is_ok(r) THEN r.ok ELSE EmptyBody
\* StatusCode::is_success
is_success(status) == status >= 200 /\ status <= 299

\* ------------------------------------------------------------------ errors
\* JellyfinError
AuthNotFound == [kind |-> "AuthNotFound"]
NetworkError(e) == [kind |-> "NetworkError", source |-> e]
\* The HttpRequestError literal of src/utils.rs, with every field.
HttpRequestError(status, type_, title, detail, instance, errors, message) ==
    [kind |-> "HttpRequestError", status |-> status, type_ |-> type_,
     title |-> title, detail |-> detail, instance |-> instance,
     errors |-> errors, message |-> message]

\* msgs.iter().filter_map(|m| m.as_str().map(String::from)).collect()
RECURSIVE filter_map_as_str(_)
filter_map_as_str(msgs) ==
    IF msgs = <<>> THEN <<>>
    ELSE LET m == as_str(Head(msgs))
         IN (IF m = None THEN <<>> ELSE <<m[1]>>) \o filter_map_as_str(Tail(msgs))

\* Mutant: an entry with an empty message list is not inserted.
collect_errors_SkipsEmpty(errs) ==
    [key \in {k \in DOMAIN errs : as_array(errs[k]) \notin {None, Some(<<>>)}} |->
        filter_map_as_str(as_array(errs[key])[1])]

\* The loop over the entries of the "errors" object: an entry whose value is
\* an array is inserted with its string elements, any other entry is skipped.
collect_errors(errs) ==
    [key \in {k \in DOMAIN errs : as_array(errs[k]) # None} |->
        filter_map_as_str(as_array(errs[key])[1])]

\* HashMap::new()
EmptyMap == [key \in {} |-> <<>>]

\* Mutant: the fallback for a body that is not JSON drops the body text.
handle_http_error_NoFallbackText(resp) ==
    LET status_code == resp.status
        body == unwrap_or_default(text(resp))
        parsed == from_str(body)
    IN  IF is_ok(parsed)
        THEN LET parsed_body == parsed.ok
                 errs == get_object(parsed_body, "errors")
                 errors == IF errs # None THEN collect_errors(errs[1]) ELSE EmptyMap
             IN  HttpRequestError(status_code,
                    get_str(parsed_body, "type"),
                    get_str(parsed_body, "title"),
                    get_str(parsed_body, "detail"),
                    get_str(parsed_body, "instance"),
                    errors, body)
        ELSE HttpRequestError(status_code, None, None, None, None, EmptyMap, EmptyBody)

\* Mutant: a body that is valid JSON but no object is reported as a parse
\* failure instead of an HTTP error.
handle_http_error_PropagatesParse(resp) ==
    LET status_code == resp.status
        body == unwrap_or_default(text(resp))
        parsed == from_str(body)
    IN  IF is_ok(parsed)
        THEN LET parsed_body == parsed.ok
                 errs == get_object(parsed_body, "errors")
                 errors == IF errs # None THEN collect_errors(errs[1]) ELSE EmptyMap
             IN  IF as_object(parsed_body) = None
                 THEN NetworkError("decode")
                 ELSE HttpRequestError(status_code,
                        get_str(parsed_body, "type"),
                        get_str(parsed_body, "title"),
                        get_str(parsed_body, "detail"),
                        get_str(parsed_body, "instance"),
                        errors, body)
        ELSE HttpRequestError(status_code, None, None, None, None, EmptyMap, body)

\* utils::handle_http_error
handle_http_error(resp) ==
    LET status_code == resp.status
        body == unwrap_or_default(text(resp))
        parsed == from_str(body)
    IN  IF is_ok(parsed)
        THEN LET parsed_body == parsed.ok
                 errs == get_object(parsed_body, "errors")
                 errors == IF errs # None THEN collect_errors(errs[1]) ELSE EmptyMap
             IN  HttpRequestError(status_code,
                    get_str(parsed_body, "type"),
                    get_str(parsed_body, "title"),
                    get_str(parsed_body, "detail"),
                    get_str(parsed_body, "instance"),
                    errors, body)
        ELSE HttpRequestError(status_code, None, None, None, None, EmptyMap, body)

\* ----------------------------------------------------------- session record
\* The access tokens, user ids and device names of the model.
Tokens == {"tokA", "tokB"}
UserIds == {"u1", "u2"}
DeviceNames == {<<"m", "y", " ", "p", "c">>}

\* user::User as decoded from a JSON object (the model keeps name and id of
\* its fields).
de_User(v) ==
    LET id == get_str(v, "Id")
        name == get_str(v, "Name")
    IN  IF id # None /\ name # None
        THEN Ok([name |-> name[1], id |-> id[1]])
        ELSE Err("data")

\* Vec<User> as decoded from a JSON array of users.
de_VecUser(v) ==
    LET a == as_array(v)
    IN  IF a # None /\ \A i \in DOMAIN a[1] : is_ok(de_User(a[1][i]))
        THEN Ok([i \in DOMAIN a[1] |-> de_User(a[1][i]).ok])
        ELSE Err("data")

\* user::UserAuth as decoded from a JSON object with the PascalCase keys
\* User, SessionInfo, AccessToken and ServerId.
de_UserAuth(v) ==
    LET user == get(v, "User")
        session_info == get_object(v, "SessionInfo")
        access_token == get_str(v, "AccessToken")
        server_id == get_str(v, "ServerId")
    IN  IF /\ user # None /\ is_ok(de_User(user[1]))
           /\ session_info # None /\ access_token # None /\ server_id # None
        THEN Ok([user |-> de_User(user[1]).ok, session_info |-> session_info[1],
                 access_token |-> access_token[1], server_id |-> server_id[1]])
        ELSE Err("data")

\* Response::json::<T>().await.map_err(JellyfinError::NetworkError): reads the
\* body, parses it and decodes it into the declared type T.
json(resp, T) ==
    LET t == text(resp)
        parsed == IF is_ok(t) THEN from_str(t.ok) ELSE Err("body")
        d == IF ~is_ok(parsed) THEN parsed
             ELSE IF T = "User" THEN de_User(parsed.ok)
             ELSE IF T = "VecUser" THEN de_VecUser(parsed.ok)
             ELSE de_UserAuth(parsed.ok)
    IN  IF ~is_ok(d) THEN Err(NetworkError("decode"))
        ELSE IF T = "User" THEN Ok([user |-> d.ok])
        ELSE IF T = "VecUser" THEN Ok([users |-> d.ok])
        ELSE Ok([user_auth |-> d.ok])

\* ------------------------------------------------------------------ header
\* str::replace(' ', "_") on a device name (a sequence of characters)
replace(s, from, to) == [i \in DOMAIN s |-> IF s[i] = from THEN to ELSE s[i]]
\* format!("{:x}", md5::compute(name)): the digest is a function of the name
md5_hex(name) == [md5 |-> name]
\* format!("{:x}", sha1(password))
sha1_hex(password) == [sha1 |-> password]

\* format!("MediaBrowser Client=\"jellyfin-rs\", Device=\"{}\",
\* DeviceId=\"{:x}\", Version=1, Token=\"{}\"", ...): the header value, by its
\* parts.
emby_header(device_name, token) ==
    [client |-> "jellyfin-rs", device |-> device_name,
     device_id |-> md5_hex(device_name), version |-> 1, token |-> token]

\* Mutant: the header is formatted with the empty token of the methods
\* without authentication.
to_emby_header_NoToken(self, dev) ==
    LET device_name == replace(dev, " ", "_")
    IN  emby_header(device_name, "")

\* Mutant: the device id is the digest of the device name as the machine
\* reports it, spaces included.
to_emby_header_HashesRawName(self, dev) ==
    LET device_name == replace(dev, " ", "_")
    IN  [emby_header(device_name, self.access_token) EXCEPT !.device_id = md5_hex(dev)]

\* UserAuth::to_emby_header, dev being whoami::devicename()
to_emby_header(self, dev) ==
    LET device_name == replace(dev, " ", "_")
    IN  emby_header(device_name, self.access_token)

\* Mutant: without a session record the header is formatted with an empty
\* token instead of returning AuthNotFound.
auth_header_Unchecked(self_auth, dev) ==
    IF self_auth = None THEN Ok(emby_header(replace(dev, " ", "_"), ""))
    ELSE Ok(to_emby_header(self_auth[1], dev))

\* self.auth.as_ref().ok_or(JellyfinError::AuthNotFound)?.to_emby_header()
auth_header(self_auth, dev) ==
    IF self_auth = None THEN Err(AuthNotFound)
    ELSE Ok(to_emby_header(self_auth[1], dev))

\* The header the methods without authentication format in place, with an
\* empty token.
anon_header(dev) ==
    LET device_name == replace(dev, " ", "_")
    IN  Ok(emby_header(device_name, ""))

\* ----------------------------------------------------------------- the URL
\* Most trailing slashes of a URL argument in the model.
MaxSlashes == 2

\* A URL argument is a sequence of pieces: the scheme with its colon, a slash,
\* or a run of characters without slash.
Slashes(n) == [i \in 1..n |-> "/"]
UrlInputs ==
    {scheme \o host \o path \o Slashes(t) :
        scheme \in {<<>>, <<"http:", "/", "/">>},
        host \in {<<>>, <<"example.com">>},
        path \in {<<>>, <<"/", "jf">>, <<"/", "jf", "/", "/", "x">>},
        t \in 0..MaxSlashes}

\* Mutant: one trailing slash is removed, as strip_suffix does.
trim_end_matches_Once(s, pat) ==
    IF s # <<>> /\ s[Len(s)] = pat THEN SubSeq(s, 1, Len(s) - 1) ELSE s

\* str::trim_end_matches(pat): every trailing occurrence of pat is removed.
RECURSIVE trim_end_matches(_, _)
trim_end_matches(s, pat) ==
    IF s # <<>> /\ s[Len(s)] = pat
    THEN trim_end_matches(SubSeq(s, 1, Len(s) - 1), pat)
    ELSE s

\* The slashes before the host: the parser of the url crate skips any number
\* of them after a special scheme.
RECURSIVE skip_slashes(_)
skip_slashes(s) ==
    IF s # <<>> /\ s[1] = "/" THEN skip_slashes(Tail(s)) ELSE s

\* Url::path_segments of the text after the host: the pieces between the
\* slashes, the empty piece after a slash that nothing follows included.
RECURSIVE split_path(_)
split_path(p) ==
    IF p = <<>> THEN <<>>
    ELSE IF Len(p) >= 2 /\ p[2] # "/"
    THEN <<p[2]>> \o split_path(SubSeq(p, 3, Len(p)))
    ELSE <<"">> \o split_path(Tail(p))

\* Url::parse: a text without scheme is a relative URL and has no base, an
\* http URL needs a host, and a URL without path gets the root path "/".
parse(s) ==
    LET rest == skip_slashes(Tail(s))
    IN  IF s = <<>> \/ s[1] # "http:" THEN Err("RelativeUrlWithoutBase")
        ELSE IF rest = <<>> THEN Err("EmptyHost")
        ELSE Ok([scheme |-> "http", host |-> rest[1],
                 path |-> IF Tail(rest) = <<>> THEN <<"">>
                          ELSE split_path(Tail(rest))])

\* JellyfinError::UrlParseError, by From<url::ParseError>
UrlParseError(e) == [kind |-> "UrlParseError", source |-> e]

\* The base URL of the client whose endpoint methods are called.
BaseUrl == parse(<<"http:", "/", "/", "example.com">>).ok

\* ------------------------------------------------------------ wire names
\* The fields of the records with #[serde(rename_all = "PascalCase")].
UserFields ==
    {"name", "server_id", "server_name", "id", "primary_image_tag",
     "has_password", "has_configured_password",
     "has_configured_easy_password", "enable_auto_login", "last_login_date",
     "last_activity_date", "configuration", "policy",
     "primary_image_aspect_ratio"}
UserConfigurationFields ==
    {"audio_language_preference", "play_default_audio_track",
     "subtitle_language_preference", "display_missing_episodes",
     "grouped_folders", "subtitle_mode", "display_collections_view",
     "enable_local_password", "ordered_views", "latest_items_excludes",
     "my_media_excludes", "hide_played_in_latest",
     "remember_audio_selections", "remember_subtitle_selections",
     "enable_next_episode_auto_play"}
UserPolicyFields ==
    {"is_administrator", "is_hidden", "is_disabled", "max_parental_rating",
     "blocked_tags", "enable_user_preference_access", "access_schedules",
     "block_unrated_items", "enable_remote_control_of_other_users",
     "enable_shared_device_control", "enable_remote_access",
     "enable_live_tv_management", "enable_live_tv_access",
     "enable_media_playback", "enable_audio_playback_transcoding",
     "enable_video_playback_transcoding", "enable_playback_remuxing",
     "force_remote_source_transcoding", "enable_content_deletion",
     "enable_content_deletion_from_folders", "enable_content_downloading",
     "enable_sync_transcoding", "enable_media_conversion", "enabled_devices",
     "enable_all_devices", "enabled_channels", "enable_all_channels",
     "enabled_folders", "enable_all_folders", "invalid_login_attempt_count",
     "login_attempts_before_lockout", "max_active_sessions",
     "enable_public_sharing", "blocked_media_folders", "blocked_channels",
     "remote_client_bitrate_limit", "authentication_provider_id",
     "password_reset_provider_id", "sync_play_access"}
UserAccessScheduleFields ==
    {"user_id", "day_of_week", "start_hour", "end_hour"}
UserAuthFields ==
    {"user", "session_info", "access_token", "server_id"}
AuthUserNameQueryFields ==
    {"username", "pw"}

SerdeRecords ==
    {"User", "UserConfiguration", "UserPolicy", "UserAccessSchedule", "UserAuth",
     "AuthUserNameQuery"}
FieldsOf(record) ==
    CASE record = "User" -> UserFields
      [] record = "UserConfiguration" -> UserConfigurationFields
      [] record = "UserPolicy" -> UserPolicyFields
      [] record = "UserAccessSchedule" -> UserAccessScheduleFields
      [] record = "UserAuth" -> UserAuthFields
      [] record = "AuthUserNameQuery" -> AuthUserNameQueryFields

\* char::to_ascii_uppercase
LowerCase == "abcdefghijklmnopqrstuvwxyz"
UpperCase == "ABCDEFGHIJKLMNOPQRSTUVWXYZ"
to_ascii_uppercase(ch) ==
    LET at == {i \in 1..Len(LowerCase) : SubSeq(LowerCase, i, i) = ch}
    IN  IF at = {} THEN ch
        ELSE LET i == CHOOSE i \in at : TRUE IN SubSeq(UpperCase, i, i)

\* The loop of serde's rename rule over the characters of a field name: an
\* underscore is dropped and makes the next character a capital.
RECURSIVE rename_chars(_, _, _, _)
rename_chars(name, i, capitalize, pascal) ==
    IF i > Len(name) THEN pascal
    ELSE LET ch == SubSeq(name, i, i)
         IN  IF ch = "_" THEN rename_chars(name, i + 1, TRUE, pascal)
             ELSE IF capitalize
             THEN rename_chars(name, i + 1, FALSE, pascal \o to_ascii_uppercase(ch))
             ELSE rename_chars(name, i + 1, FALSE, pascal \o ch)

\* Mutant: the rule "camelCase", whose first character stays as it is.
PascalCase_Camel(name) == rename_chars(name, 1, FALSE, "")

\* rename_all = "PascalCase": the name of a field in the JSON text.
PascalCase(name) == rename_chars(name, 1, TRUE, "")

\* No field is being renamed.
NoField == [record |-> "none", local |-> "", wire |-> None]

\* ------------------------------------------------------------------- state
VARIABLES
    auth,        \* JellyfinClient.auth: Option<UserAuth>
    devicename,  \* what whoami::devicename() returns on this machine
    calls,       \* the calls awaiting their response, each with its request
    last,        \* the call that returned last: request, response, result
    ncalls,      \* the number of calls made so far
    sent,        \* the number of HTTP requests handed to send()
    url,         \* JellyfinClient.url, None while there is no client
    ctor,        \* the constructor call: its arguments, and its result
    header_value, \* the header value to_emby_header returned
    serde_field, \* a field of a record, and the name serde gives it on the wire
    resp,        \* the response handed to handle_http_error
    decoded      \* what handle_http_error returned for it

vars ==
    <<auth, devicename, calls, last, ncalls, sent, url, ctor, header_value, serde_field, resp, decoded>>

\* ------------------------------------------------------------ the network
\* send().await failed: no response.
TransportError == [transport_error |-> TRUE]

UserJson(id) == Obj([Id |-> Str(id), Name |-> Str("name")])
UserAuthJson(token) ==
    Obj([User |-> UserJson("u1"), SessionInfo |-> Obj([Id |-> Str("s1")]),
         AccessToken |-> Str(token), ServerId |-> Str("srv")])
\* A problem-details body with a field-error map.
ProblemJson ==
    Obj([title |-> Str("Not Found"),
         errors |-> Obj([Name |-> Arr(<<Str("required")>>)])])

\* The status codes and bodies a server answers with in the model.
Statuses == {200, 404}
Bodies ==
    {Unreadable, Json(Str("User not found")), Json(ProblemJson),
     Json(UserJson("u1")), Json(Arr(<<UserJson("u1")>>))}
        \cup {Json(UserAuthJson(t)) : t \in Tokens}
Responses == {TransportError} \cup [status : Statuses, body : Bodies]

\* ------------------------------------------------------------- the client
\* The record kept of a call that returned.
Returned(method, req, rsp, result, pre, post) ==
    [method |-> method, req |-> req, resp |-> rsp, result |-> result,
     pre |-> pre, post |-> post]

\* The methods taking &mut self.
AuthMethods == {"auth_user_std", "auth_user_name"}
\* The methods that put the session token in the header.
TokenMethods ==
    {"get_users", "get_user_by_id", "delete_user", "update_user",
     "update_user_conf", "update_user_password", "update_user_policy",
     "get_user_by_auth", "create_user"}
\* The remaining &self methods.
AnonMethods ==
    {"user_forgot_password", "user_redeem_forgot_password_pin",
     "get_public_user_list"}

\* A &self method borrows the client shared: no &mut self call is awaiting.
BorrowShared == \A c \in BagToSet(calls) : c.method \notin AuthMethods
\* Mutant: an authentication method starts whatever else is awaiting.
BorrowMut_Shared == TRUE

\* A &mut self method borrows the client exclusively: no call is awaiting.
BorrowMut == calls = EmptyBag

\* The request a method builds: reqwest's RequestBuilder after .header(..),
\* .query(..) or .json(..).
Request(http, path, payload, header) ==
    [http |-> http, path |-> path, payload |-> payload, header |-> header]
\* A call awaiting its response: the method, its arguments and its request.
Call(method, args, req) == [method |-> method, args |-> args, req |-> req]

\* The first half of every method, up to send().await: the `?` on the header
\* returns the error before the request is built; otherwise the request goes
\* out and the call awaits the response.
Send(method, args, http, path, payload, header) ==
    /\ ncalls < MaxCalls
    /\ ncalls' = ncalls + 1
    /\ IF is_ok(header)
       THEN /\ BagCardinality(calls) < MaxInFlight
            /\ calls' = calls (+) SetToBag({Call(method, args,
                            Request(http, path, payload, header.ok))})
            /\ sent' = sent + 1
            /\ UNCHANGED <<auth, last>>
       ELSE /\ last' = Returned(method, None, None, header, auth, auth)
            /\ UNCHANGED <<auth, calls, sent>>
    /\ UNCHANGED <<devicename, url, ctor, header_value, serde_field, resp, decoded>>

\* Mutant: every non-success response is reported as a bad request.
EndpointHttpError_BadRequest(rsp) ==
    LET error_message == unwrap_or_default(text(rsp))
    IN  [kind |-> "HttpRequestError", status |-> 400, message |-> error_message]

\* The HttpRequestError literal of the methods of src/user.rs: status and
\* message only.
EndpointHttpError(rsp) ==
    LET status_code == rsp.status
        error_message == unwrap_or_default(text(rsp))
    IN  [kind |-> "HttpRequestError", status |-> status_code,
         message |-> error_message]

Unit == [unit |-> TRUE]

\* Mutant: a body that does not decode is reported like a non-success status.
match_data_HttpErrorOnDecode(rsp, T) ==
    IF rsp = TransportError THEN Err(NetworkError("send"))
    ELSE IF is_success(rsp.status) /\ is_ok(json(rsp, T)) THEN json(rsp, T)
    ELSE Err(EndpointHttpError(rsp))

\* match response { ... } of a method returning data of type T
match_data(rsp, T) ==
    IF rsp = TransportError THEN Err(NetworkError("send"))
    ELSE IF is_success(rsp.status) THEN json(rsp, T)
    ELSE Err(EndpointHttpError(rsp))

\* Mutant: a method returning () reports every response as success, whatever
\* its status.
match_unit_IgnoresStatus(rsp) ==
    IF rsp = TransportError THEN Err(NetworkError("send"))
    ELSE Ok(Unit)

\* match response { ... } of a method returning ()
match_unit(rsp) ==
    IF rsp = TransportError THEN Err(NetworkError("send"))
    ELSE IF is_success(rsp.status) THEN Ok(Unit)
    ELSE Err(EndpointHttpError(rsp))

\* Mutant: a non-success response clears the session record.
match_auth_ClearsOnFailure(self_auth, rsp) ==
    IF rsp = TransportError
    THEN [result |-> Err(NetworkError("send")), auth |-> self_auth]
    ELSE IF is_success(rsp.status)
    THEN LET d == json(rsp, "UserAuth")
         IN  IF is_ok(d) THEN [result |-> Ok(Unit), auth |-> Some(d.ok.user_auth)]
             ELSE [result |-> d, auth |-> self_auth]
    ELSE [result |-> Err(EndpointHttpError(rsp)), auth |-> None]

\* Mutant: a success response sets the session record only when none is held.
match_auth_KeepsFirst(self_auth, rsp) ==
    IF rsp = TransportError
    THEN [result |-> Err(NetworkError("send")), auth |-> self_auth]
    ELSE IF is_success(rsp.status)
    THEN LET d == json(rsp, "UserAuth")
         IN  IF is_ok(d)
             THEN [result |-> Ok(Unit),
                   auth |-> IF self_auth = None THEN Some(d.ok.user_auth) ELSE self_auth]
             ELSE [result |-> d, auth |-> self_auth]
    ELSE [result |-> Err(EndpointHttpError(rsp)), auth |-> self_auth]

\* Mutant: the session record is taken out of the client before the request
\* and put back only when a response arrives.
match_auth_ClearsOnTransportError(self_auth, rsp) ==
    IF rsp = TransportError
    THEN [result |-> Err(NetworkError("send")), auth |-> None]
    ELSE IF is_success(rsp.status)
    THEN LET d == json(rsp, "UserAuth")
         IN  IF is_ok(d) THEN [result |-> Ok(Unit), auth |-> Some(d.ok.user_auth)]
             ELSE [result |-> d, auth |-> self_auth]
    ELSE [result |-> Err(EndpointHttpError(rsp)), auth |-> self_auth]

\* Mutant: a success body that does not decode is replaced by the default
\* session record (unwrap_or_default in the place of `?`).
match_auth_DefaultOnUndecodable(self_auth, rsp) ==
    IF rsp = TransportError
    THEN [result |-> Err(NetworkError("send")), auth |-> self_auth]
    ELSE IF is_success(rsp.status)
    THEN LET d == json(rsp, "UserAuth")
         IN  IF is_ok(d) THEN [result |-> Ok(Unit), auth |-> Some(d.ok.user_auth)]
             ELSE [result |-> Ok(Unit),
                   auth |-> Some([user |-> [name |-> "", id |-> ""],
                                  session_info |-> [Id |-> Str("")],
                                  access_token |-> "", server_id |-> ""])]
    ELSE [result |-> Err(EndpointHttpError(rsp)), auth |-> self_auth]

\* match response { ... } of auth_user_std and auth_user_name: the result and
\* the value of self.auth after it.
match_auth(self_auth, rsp) ==
    IF rsp = TransportError
    THEN [result |-> Err(NetworkError("send")), auth |-> self_auth]
    ELSE IF is_success(rsp.status)
    THEN LET d == json(rsp, "UserAuth")
         IN  IF is_ok(d) THEN [result |-> Ok(Unit), auth |-> Some(d.ok.user_auth)]
             ELSE [result |-> d, auth |-> self_auth]
    ELSE [result |-> Err(EndpointHttpError(rsp)), auth |-> self_auth]

\* match response { ... } of a &self method whose success value is T
match_response(rsp, T) ==
    IF T = "Unit" THEN match_unit(rsp) ELSE match_data(rsp, T)

\* Mutant: a &self method that returns Ok drops the session record.
Return_DropsSession(method, T) ==
    \E c \in BagToSet(calls) : \E rsp \in Responses :
        /\ c.method = method
        /\ calls' = calls (-) SetToBag({c})
        /\ auth' = IF is_ok(match_response(rsp, T)) THEN None ELSE auth
        /\ last' = Returned(method, Some(c.req), Some(rsp), match_response(rsp, T), auth, auth')
        /\ UNCHANGED <<ncalls, sent, devicename, url, ctor, header_value, serde_field, resp, decoded>>

\* Mutant: after a transport failure the request is sent again and the call
\* keeps awaiting.
Return_Resends(method, T) ==
    \E c \in BagToSet(calls) : \E rsp \in Responses :
        /\ c.method = method
        /\ IF rsp = TransportError
           THEN /\ sent' = sent + 1
                /\ UNCHANGED <<calls, last>>
           ELSE /\ calls' = calls (-) SetToBag({c})
                /\ last' = Returned(method, Some(c.req), Some(rsp), match_response(rsp, T), auth, auth)
                /\ UNCHANGED sent
        /\ UNCHANGED <<auth, ncalls, devicename, url, ctor, header_value, serde_field, resp, decoded>>

\* The second half of a &self method: the response arrives and the method
\* returns its result.
Return(method, T) ==
    \E c \in BagToSet(calls) : \E rsp \in Responses :
        /\ c.method = method
        /\ calls' = calls (-) SetToBag({c})
        /\ last' = Returned(method, Some(c.req), Some(rsp), match_response(rsp, T), auth, auth)
        /\ UNCHANGED <<auth, ncalls, sent, devicename, url, ctor, header_value, serde_field, resp, decoded>>

\* The second half of a &mut self method.
ReturnAuth(method) ==
    \E c \in BagToSet(calls) : \E rsp \in Responses :
        LET m == match_auth(auth, rsp)
        IN  /\ c.method = method
            /\ calls' = calls (-) SetToBag({c})
            /\ auth' = m.auth
            /\ last' = Returned(method, Some(c.req), Some(rsp), m.result, auth, m.auth)
            /\ UNCHANGED <<ncalls, sent, devicename, url, ctor, header_value, serde_field, resp, decoded>>

\* ---------------------------------------------------- arguments of calls
\* A method called without arguments.
NoArgs == [no_args |-> TRUE]
NoPayload == [none |-> TRUE]
Query(q) == [query |-> q]
JsonBody(b) == [json |-> b]
\* (is_hidden, is_disabled) of get_users
QueryFlags == {<<FALSE, TRUE>>}
Usernames == {"alice"}
Passwords == {"secret"}
Pins == {"1234"}
\* The user, configuration and policy records passed to the update methods.
NewInfos == {[name |-> "name", id |-> "u1"]}
NewConfs == {[subtitle_mode |-> "Smart"]}
NewPolicies == {[is_administrator |-> FALSE]}

\* ------------------------------------------------------- endpoint methods
\* Each method is its two halves: up to send().await, and from the response.
get_users ==
    \/ /\ BorrowShared
       /\ \E flags \in QueryFlags :
            Send("get_users", [is_hidden |-> flags[1], is_disabled |-> flags[2]],
                 "GET", <<"Users">>,
                 Query([is_hidden |-> flags[1], is_disabled |-> flags[2]]),
                 auth_header(auth, devicename))
    \/ Return("get_users", "VecUser")

get_user_by_id ==
    \/ /\ BorrowShared
       /\ \E id \in UserIds :
            Send("get_user_by_id", [id |-> id], "GET", <<"Users", id>>, NoPayload,
                 auth_header(auth, devicename))
    \/ Return("get_user_by_id", "User")

delete_user ==
    \/ /\ BorrowShared
       /\ \E id \in UserIds :
            Send("delete_user", [id |-> id], "DELETE", <<"Users", id>>, NoPayload,
                 auth_header(auth, devicename))
    \/ Return("delete_user", "Unit")

update_user ==
    \/ /\ BorrowShared
       /\ \E id \in UserIds, new_info \in NewInfos :
            Send("update_user", [id |-> id, new_info |-> new_info], "POST",
                 <<"Users", id>>, JsonBody(new_info),
                 auth_header(auth, devicename))
    \/ Return("update_user", "Unit")

\* The request auth_user_std builds.
auth_user_std_request(id, password, dev) ==
    Request("POST", <<"Users", id, "Authenticate">>,
            Query([pw |-> password, password |-> sha1_hex(password)]),
            anon_header(dev).ok)

\* auth_user_std up to send().await
auth_user_std_send ==
    /\ BorrowMut
    /\ \E id \in UserIds, password \in Passwords :
         LET req == auth_user_std_request(id, password, devicename)
         IN  Send("auth_user_std", [id |-> id, password |-> password],
                  req.http, req.path, req.payload, Ok(req.header))

auth_user_std ==
    \/ auth_user_std_send
    \/ ReturnAuth("auth_user_std")

\* Mutant: the configuration is posted to the path of update_user.
update_user_conf_ToUserPath ==
    \/ /\ BorrowShared
       /\ \E id \in UserIds, new_conf \in NewConfs :
            Send("update_user_conf", [id |-> id, new_conf |-> new_conf],
                 "POST", <<"Users", id>>,
                 JsonBody(new_conf), auth_header(auth, devicename))
    \/ Return("update_user_conf", "Unit")

update_user_conf ==
    \/ /\ BorrowShared
       /\ \E id \in UserIds, new_conf \in NewConfs :
            Send("update_user_conf", [id |-> id, new_conf |-> new_conf],
                 "POST", <<"Users", id, "Configuration">>,
                 JsonBody(new_conf), auth_header(auth, devicename))
    \/ Return("update_user_conf", "Unit")

update_user_password ==
    \/ /\ BorrowShared
       /\ \E id \in UserIds, new_password \in Passwords :
            Send("update_user_password",
                 [id |-> id, new_password |-> new_password], "POST", <<"Users", id, "Password">>,
                 JsonBody([NewPw |-> new_password]),
                 auth_header(auth, devicename))
    \/ Return("update_user_password", "Unit")

update_user_policy ==
    \/ /\ BorrowShared
       /\ \E id \in UserIds, new_policy \in NewPolicies :
            Send("update_user_policy", [id |-> id, new_policy |-> new_policy],
                 "POST", <<"Users", id, "Policy">>,
                 JsonBody(new_policy), auth_header(auth, devicename))
    \/ Return("update_user_policy", "Unit")

\* The request auth_user_name builds.
auth_user_name_request(username, password, dev) ==
    Request("POST", <<"Users", "AuthenticateByName">>,
            JsonBody([Username |-> username, Pw |-> password]),
            anon_header(dev).ok)

\* auth_user_name up to send().await
auth_user_name_send ==
    /\ BorrowMut
    /\ \E username \in Usernames, password \in Passwords :
         LET req == auth_user_name_request(username, password, devicename)
         IN  Send("auth_user_name", [username |-> username, password |-> password],
                  req.http, req.path, req.payload, Ok(req.header))

auth_user_name ==
    \/ auth_user_name_send
    \/ ReturnAuth("auth_user_name")

user_forgot_password ==
    \/ /\ BorrowShared
       /\ \E username \in Usernames :
            Send("user_forgot_password", [username |-> username], "POST",
                 <<"Users", "ForgotPassword">>,
                 JsonBody([EnteredUsername |-> username]),
                 anon_header(devicename))
    \/ Return("user_forgot_password", "Unit")

user_redeem_forgot_password_pin ==
    \/ /\ BorrowShared
       /\ \E pin \in Pins :
            Send("user_redeem_forgot_password_pin", [pin |-> pin], "POST",
                 <<"Users", "ForgotPassword", "Pin">>, JsonBody([Pin |-> pin]),
                 anon_header(devicename))
    \/ Return("user_redeem_forgot_password_pin", "Unit")

get_user_by_auth ==
    \/ /\ BorrowShared
       /\ Send("get_user_by_auth", NoArgs, "GET", <<"Users", "Me">>, NoPayload,
               auth_header(auth, devicename))
    \/ Return("get_user_by_auth", "User")

create_user ==
    \/ /\ BorrowShared
       /\ \E username \in Usernames, password \in Passwords :
            Send("create_user", [username |-> username, password |-> password],
                 "POST", <<"Users", "New">>,
                 JsonBody([Name |-> username, Password |-> password]),
                 auth_header(auth, devicename))
    \/ Return("create_user", "User")

\* Mutant: the header is built from the session record, as in the methods
\* that require authentication.
get_public_user_list_Authenticated ==
    \/ /\ BorrowShared
       /\ Send("get_public_user_list", NoArgs, "GET", <<"Users", "Public">>, NoPayload,
               auth_header(auth, devicename))
    \/ Return("get_public_user_list", "VecUser")

get_public_user_list ==
    \/ /\ BorrowShared
       /\ Send("get_public_user_list", NoArgs, "GET", <<"Users", "Public">>, NoPayload,
               anon_header(devicename))
    \/ Return("get_public_user_list", "VecUser")

\* ----------------------------------------------------------- specification
\* No call has returned yet.
NoCall == Returned("none", None, None, Ok(Unit), None, None)
\* The response variable of the decoder while the client runs.
NoResponse == [status |-> 0, body |-> EmptyBody]

\* JellyfinClient::new: a client without a session record.
Init ==
    /\ auth = None
    /\ devicename \in DeviceNames
    /\ calls = EmptyBag
    /\ last = NoCall
    /\ ncalls = 0
    /\ sent = 0
    /\ url = Some(BaseUrl)
    /\ ctor = None
    /\ header_value = None
    /\ serde_field = NoField
    /\ resp = NoResponse
    /\ decoded = None

Next ==
    \/ get_users
    \/ get_user_by_id
    \/ delete_user
    \/ update_user
    \/ auth_user_std
    \/ update_user_conf
    \/ update_user_password
    \/ update_user_policy
    \/ auth_user_name
    \/ user_forgot_password
    \/ user_redeem_forgot_password_pin
    \/ get_user_by_auth
    \/ create_user
    \/ get_public_user_list

Spec == Init /\ [][Next]_vars

\* -------------------------------------------------------- the constructors
\* The client a constructor returns.
Client(u, a) == [client |-> [url |-> u, auth |-> a]]
\* A constructor awaiting the response of its authentication call.
Constructing(name, url_str) ==
    [name |-> name, url_str |-> url_str, pc |-> "awaiting"]
\* A constructor that returned.
Constructed(name, url_str, result) ==
    [name |-> name, url_str |-> url_str, pc |-> "returned", result |-> result]

\* JellyfinClient::new
new ==
    \E url_str \in UrlInputs :
        LET trimmed_url_str == trim_end_matches(url_str, "/")
            parsed == parse(trimmed_url_str)
        IN  /\ ctor = None
            /\ IF is_ok(parsed)
               THEN /\ url' = Some(parsed.ok)
                    /\ auth' = None
                    /\ ctor' = Some(Constructed("new", url_str, Ok(Client(parsed.ok, None))))
               ELSE /\ ctor' = Some(Constructed("new", url_str, Err(UrlParseError(parsed.err))))
                    /\ UNCHANGED <<url, auth>>
            /\ UNCHANGED <<devicename, calls, last, ncalls, sent, header_value, serde_field, resp, decoded>>

\* Mutant: a URL that does not parse is replaced by a default base URL and
\* the constructor goes on.
NewAuthBegin_FallbackUrl(name, url_str, call) ==
    LET trimmed_url_str == trim_end_matches(url_str, "/")
        parsed == parse(trimmed_url_str)
    IN  /\ ctor = None
        /\ url' = Some(IF is_ok(parsed) THEN parsed.ok ELSE BaseUrl)
        /\ auth' = None
        /\ calls' = calls (+) SetToBag({call})
        /\ ncalls' = ncalls + 1
        /\ sent' = sent + 1
        /\ ctor' = Some(Constructing(name, url_str))
        /\ UNCHANGED <<devicename, last, header_value, serde_field, resp, decoded>>

\* new_auth_std and new_auth_name up to the send().await of the
\* authentication call: the `?` on Url::parse returns the error; otherwise the
\* client is built without session record and the call's request goes out.
NewAuthBegin(name, url_str, call) ==
    LET trimmed_url_str == trim_end_matches(url_str, "/")
        parsed == parse(trimmed_url_str)
    IN  /\ ctor = None
        /\ IF is_ok(parsed)
           THEN /\ url' = Some(parsed.ok)
                /\ auth' = None
                /\ calls' = calls (+) SetToBag({call})
                /\ ncalls' = ncalls + 1
                /\ sent' = sent + 1
                /\ ctor' = Some(Constructing(name, url_str))
           ELSE /\ ctor' = Some(Constructed(name, url_str, Err(UrlParseError(parsed.err))))
                /\ UNCHANGED <<url, auth, calls, ncalls, sent>>
        /\ UNCHANGED <<devicename, last, header_value, serde_field, resp, decoded>>

\* Mutant: the result of the authentication call is dropped and the client
\* is returned whatever it was.
NewAuthEnd_IgnoresError(name, method) ==
    \E c \in BagToSet(calls) : \E rsp \in Responses :
        LET m == match_auth(auth, rsp)
        IN  /\ ctor # None /\ ctor[1].name = name /\ ctor[1].pc = "awaiting"
            /\ c.method = method
            /\ calls' = calls (-) SetToBag({c})
            /\ last' = Returned(method, Some(c.req), Some(rsp), m.result, auth, m.auth)
            /\ auth' = m.auth
            /\ ctor' = Some(Constructed(name, ctor[1].url_str, Ok(Client(url[1], m.auth))))
            /\ UNCHANGED url
            /\ UNCHANGED <<devicename, ncalls, sent, header_value, serde_field, resp, decoded>>

\* new_auth_std and new_auth_name from the response of the authentication
\* call: the `?` on its result returns the error and drops the client;
\* otherwise the client is returned.
NewAuthEnd(name, method) ==
    \E c \in BagToSet(calls) : \E rsp \in Responses :
        LET m == match_auth(auth, rsp)
        IN  /\ ctor # None /\ ctor[1].name = name /\ ctor[1].pc = "awaiting"
            /\ c.method = method
            /\ calls' = calls (-) SetToBag({c})
            /\ last' = Returned(method, Some(c.req), Some(rsp), m.result, auth, m.auth)
            /\ IF is_ok(m.result)
               THEN /\ auth' = m.auth
                    /\ ctor' = Some(Constructed(name, ctor[1].url_str,
                                                Ok(Client(url[1], m.auth))))
                    /\ UNCHANGED url
               ELSE /\ auth' = None
                    /\ url' = None
                    /\ ctor' = Some(Constructed(name, ctor[1].url_str, m.result))
            /\ UNCHANGED <<devicename, ncalls, sent, header_value, serde_field, resp, decoded>>

\* JellyfinClient::new_auth_std
new_auth_std ==
    \/ \E url_str \in UrlInputs, id \in UserIds, password \in Passwords :
            NewAuthBegin("new_auth_std", url_str,
                Call("auth_user_std", [id |-> id, password |-> password],
                     auth_user_std_request(id, password, devicename)))
    \/ NewAuthEnd("new_auth_std", "auth_user_std")

\* JellyfinClient::new_auth_name
new_auth_name ==
    \/ \E url_str \in UrlInputs, username \in Usernames, password \in Passwords :
            NewAuthBegin("new_auth_name", url_str,
                Call("auth_user_name", [username |-> username, password |-> password],
                     auth_user_name_request(username, password, devicename)))
    \/ NewAuthEnd("new_auth_name", "auth_user_name")

\* No client yet, and no constructor called.
InitNew ==
    /\ auth = None
    /\ devicename \in DeviceNames
    /\ calls = EmptyBag
    /\ last = NoCall
    /\ ncalls = 0
    /\ sent = 0
    /\ url = None
    /\ ctor = None
    /\ header_value = None
    /\ serde_field = NoField
    /\ resp = NoResponse
    /\ decoded = None

NextNew ==
    \/ new
    \/ new_auth_std
    \/ new_auth_name

SpecNew == InitNew /\ [][NextNew]_vars

\* ------------------------------------------------ the error-body decoder
\* The inputs of handle_http_error: every status below with every body below.
DecoderStatuses == {400, 404, 500}
ProblemKeys == {"type", "title", "detail", "instance"}
FieldNames == {"Name", "Password"}
\* The elements of a message list: two strings and a value that is no string.
MsgElems == {Str("required"), Str("too short"), Num(7)}
MsgLists == UNION {[1..n -> MsgElems] : n \in 0..MaxMsgs}
\* The value of one entry of an "errors" object: a list, or no list at all.
EntryValues == {Arr(q) : q \in MsgLists} \cup {Str("required")}
ErrorsObjects == UNION {[S -> EntryValues] : S \in SUBSET FieldNames}
\* What the key "errors" may hold: an object, or a value that is no object.
ErrorsValues == {Obj(e) : e \in ErrorsObjects} \cup {Str("invalid"), Arr(<<>>)}
\* The text of a problem field, different for each field.
ProblemText(key) == Str("the " \o key)

\* JSON objects with any of the problem fields as strings, objects with the
\* key "errors" and none or all of the problem fields, and an object whose
\* problem fields are no strings.
ProblemObjects ==
    {[k \in S |-> ProblemText(k)] : S \in SUBSET ProblemKeys}
    \cup {[k \in S \cup {"errors"} |-> IF k = "errors" THEN e ELSE ProblemText(k)] :
            S \in {{}, ProblemKeys}, e \in ErrorsValues}
    \cup {[k \in ProblemKeys |-> Num(1)]}

DecoderBodies ==
    {Json(Obj(o)) : o \in ProblemObjects}
    \cup {Json(Str("User not found")), Json(Num(1)), Json(Arr(<<Str("x")>>))}
    \cup {EmptyBody, Text("User not found"), Text("{type:"), Unreadable}

DecoderResponses == [status : DecoderStatuses, body : DecoderBodies]

\* A failed response about to be decoded.
InitDecoder ==
    /\ auth = None
    /\ devicename \in DeviceNames
    /\ calls = EmptyBag
    /\ last = NoCall
    /\ ncalls = 0
    /\ sent = 0
    /\ url = Some(BaseUrl)
    /\ ctor = None
    /\ header_value = None
    /\ serde_field = NoField
    /\ resp \in DecoderResponses
    /\ decoded = None

\* handle_http_error(resp).await
Decode ==
    /\ decoded = None
    /\ decoded' = Some(handle_http_error(resp))
    /\ UNCHANGED <<auth, devicename, calls, last, ncalls, sent, url, ctor, header_value, serde_field, resp>>

NextDecoder == Decode

SpecDecoder == InitDecoder /\ [][NextDecoder]_vars

\* --------------------------------------------------- the header formatter
\* Longest device name given to the formatter.
MaxNameLen == 3
\* The characters of those names: a letter, the space and the underscore.
NameChars == {"a", " ", "_"}
HeaderDeviceNames == UNION {[1..n -> NameChars] : n \in 0..MaxNameLen}
\* The session records given to the formatter: they differ in user, server
\* and access token.
HeaderSessions ==
    {[user |-> [name |-> "name", id |-> id], session_info |-> [Id |-> Str("s1")],
      access_token |-> t, server_id |-> srv] :
        id \in UserIds, t \in Tokens, srv \in {"srv", "srv2"}}

\* A session record on a machine with some device name.
InitHeader ==
    /\ auth \in {Some(a) : a \in HeaderSessions}
    /\ devicename \in HeaderDeviceNames
    /\ calls = EmptyBag
    /\ last = NoCall
    /\ ncalls = 0
    /\ sent = 0
    /\ url = Some(BaseUrl)
    /\ ctor = None
    /\ header_value = None
    /\ serde_field = NoField
    /\ resp = NoResponse
    /\ decoded = None

\* self.auth.to_emby_header()
FormatHeader ==
    /\ header_value = None
    /\ header_value' = Some(to_emby_header(auth[1], devicename))
    /\ UNCHANGED <<auth, devicename, calls, last, ncalls, sent, url, ctor, serde_field,
                   resp, decoded>>

NextHeader == FormatHeader

SpecHeader == InitHeader /\ [][NextHeader]_vars

\* ------------------------------------------- the handling of a response
\* The status codes of the responses handled: success with and without
\* content, and client and server errors.
ResponseStatuses == {200, 204, 400, 401, 404, 500}

\* The success type each method declares: Result<()>, Result<User> or
\* Result<Vec<User>>.
ReturnType(method) ==
    IF method \in {"get_users", "get_public_user_list"} THEN "VecUser"
    ELSE IF method \in {"get_user_by_id", "get_user_by_auth", "create_user"}
    THEN "User"
    ELSE "Unit"

\* match response { Ok(resp) => ... } of a method: its result, and the session
\* record it leaves.
Answered(method, self_auth, rsp) ==
    IF method \in AuthMethods THEN match_auth(self_auth, rsp)
    ELSE [result |-> match_response(rsp, ReturnType(method)), auth |-> self_auth]

\* A response that arrived, on a client with or without session record.
InitStatus ==
    /\ auth \in {None, Some(de_UserAuth(UserAuthJson("tokA")).ok)}
    /\ devicename \in DeviceNames
    /\ calls = EmptyBag
    /\ last = NoCall
    /\ ncalls = 0
    /\ sent = 0
    /\ url = Some(BaseUrl)
    /\ ctor = None
    /\ header_value = None
    /\ serde_field = NoField
    /\ resp \in [status : ResponseStatuses, body : Bodies]
    /\ decoded = None

\* A method receives the response and returns.
Match ==
    \E method \in AuthMethods \cup TokenMethods \cup AnonMethods :
        LET m == Answered(method, auth, resp)
        IN  /\ last = NoCall
            /\ last' = Returned(method, None, Some(resp), m.result, auth, m.auth)
            /\ auth' = m.auth
            /\ UNCHANGED <<devicename, calls, ncalls, sent, url, ctor, header_value,
                           serde_field, resp, decoded>>

NextStatus ==
    \/ Match
    \/ Decode

SpecStatus == InitStatus /\ [][NextStatus]_vars

\* ------------------------------------------------- the renaming of fields
\* A field of one of the records, before serde names it.
InitRename ==
    /\ auth = None
    /\ devicename \in DeviceNames
    /\ calls = EmptyBag
    /\ last = NoCall
    /\ ncalls = 0
    /\ sent = 0
    /\ url = Some(BaseUrl)
    /\ ctor = None
    /\ header_value = None
    /\ serde_field \in UNION {{[record |-> r, local |-> f, wire |-> None] :
                                    f \in FieldsOf(r)} : r \in SerdeRecords}
    /\ resp = NoResponse
    /\ decoded = None

\* The derive of Serialize and Deserialize names the field.
Rename ==
    /\ serde_field.wire = None
    /\ serde_field' = [serde_field EXCEPT !.wire = Some(PascalCase(serde_field.local))]
    /\ UNCHANGED <<auth, devicename, calls, last, ncalls, sent, url, ctor,
                   header_value, resp, decoded>>

NextRename == Rename

SpecRename == InitRename /\ [][NextRename]_vars

\* ================================================================== claims
\* The call recorded in l received a response with a status.
HasStatus(l) == l.resp # None /\ "status" \in DOMAIN l.resp[1]
\* ... with a status that is not a success.
NonSuccess(l) == HasStatus(l) /\ ~is_success(l.resp[1].status)
\* ... with a success status and a body that decodes into a session record.
SessionReturned(l) ==
    HasStatus(l) /\ is_success(l.resp[1].status) /\ is_ok(json(l.resp[1], "UserAuth"))
\* The session record in the response of l.
SessionIn(l) == json(l.resp[1], "UserAuth").ok.user_auth
\* This step is the return of a call that awaited its response.
ReturnStep == BagCardinality(calls') = BagCardinality(calls) - 1
\* The calls that this step put in flight.
Started == {c \in BagToSet(calls') : CopiesIn(c, calls') > CopiesIn(c, calls)}

\* C1: a method that requires authentication, called while the client holds no
\* session record, returns AuthNotFound without sending a request; no request
\* of such a method is ever in flight without a session record.
C1_AuthNotFoundBeforeSend ==
    /\ (last.method \in TokenMethods /\ last.pre = None) =>
            (last.result = Err(AuthNotFound) /\ last.req = None /\ last.resp = None)
    /\ \A c \in BagToSet(calls) : c.method \in TokenMethods => auth # None

C1_Witness ==
    /\ last.method = "create_user"
    /\ last.pre = None
    /\ last.result = Err(AuthNotFound)
    /\ calls = EmptyBag

\* C2: an authentication call that receives a non-success response leaves the
\* session record as it was and returns an HttpRequestError with the status of
\* the response.
C2_FailedAuthKeepsSession ==
    (last.method \in AuthMethods /\ NonSuccess(last)) =>
        /\ last.post = last.pre
        /\ auth = last.pre
        /\ ~is_ok(last.result)
        /\ last.result.err.kind = "HttpRequestError"
        /\ last.result.err.status = last.resp[1].status

C2_Witness ==
    /\ last.method \in AuthMethods
    /\ NonSuccess(last)
    /\ last.pre # None
    /\ auth = last.pre

\* C3: an authentication call that receives a success response with a
\* decodable body returns Ok and leaves as session record exactly the record of
\* that response, whether or not a record was held before.
C3_SuccessfulAuthSetsSession ==
    (last.method \in AuthMethods /\ SessionReturned(last)) =>
        /\ last.post = Some(SessionIn(last))
        /\ last.result = Ok(Unit)

C3_Witness ==
    /\ last.method \in AuthMethods
    /\ SessionReturned(last)
    /\ last.pre # None
    /\ last.post # last.pre
    /\ auth = Some(SessionIn(last))

\* C4 as stated: nothing orders the authentication calls of one client, so
\* while one awaits its response another can be started.
C4_ConcurrentAuthCalls ==
    (/\ \E c \in BagToSet(calls) : c.method \in AuthMethods
     /\ ncalls < MaxCalls
     /\ BagCardinality(calls) < MaxInFlight)
        => ENABLED (auth_user_std_send \/ auth_user_name_send)

\* The client holds at most one session record, and a call of an
\* authentication method is the only call of its client in flight.
C4_ExclusiveAuth ==
    /\ Len(auth) <= 1
    /\ \A c \in BagToSet(calls) :
            c.method \in AuthMethods => BagCardinality(calls) = 1

\* The session record after a step is the one of the response when the step is
\* the return of an authentication call with a decodable success response, and
\* the record held before the step otherwise.
C4_LastSuccessWins ==
    auth' = IF ReturnStep /\ last'.method \in AuthMethods /\ SessionReturned(last')
            THEN Some(SessionIn(last'))
            ELSE auth

\* C4 (amended): the client holds at most one session record; authentication
\* calls borrow the client exclusively, so they are never in flight together,
\* and the session record that remains is the one of the successful
\* authentication response that completed last.
C4_SerializedLastSuccessWins == []C4_ExclusiveAuth /\ [][C4_LastSuccessWins]_vars

C4_Witness ==
    /\ auth # None
    /\ \E c \in BagToSet(calls) : c.method \in AuthMethods
    /\ last.method \in AuthMethods
    /\ SessionReturned(last)

\* C5: the session record changes only in the return of an authentication call
\* that returns Ok; the return of any other method, whatever its result, and
\* the sending of any request leave it unchanged.
C5_OnlyAuthChangesSession ==
    [][/\ (auth' # auth) =>
            (ReturnStep /\ last'.method \in AuthMethods /\ last'.result = Ok(Unit))
       /\ (ReturnStep /\ last'.method \notin AuthMethods) =>
            (auth' = auth /\ last'.post = last'.pre)]_vars

C5_Witness ==
    /\ last.method \in {"delete_user", "user_forgot_password", "get_user_by_auth"}
    /\ HasStatus(last)
    /\ last.pre # None
    /\ auth = last.pre

\* C6: a request of a method that requires authentication carries the access
\* token of the session record held when the call is made, and the requests in
\* flight and the request of the last call carry the token of the session they
\* were made under, never that of a session replaced before the call.
C6_TokenOfCurrentSession ==
    /\ [](/\ \A c \in BagToSet(calls) : c.method \in TokenMethods =>
                (auth # None /\ c.req.header.token = auth[1].access_token)
          /\ (last.method \in TokenMethods /\ last.req # None) =>
                (last.pre # None
                 /\ last.req[1].header.token = last.pre[1].access_token))
    /\ [][\A c \in Started : c.method \in TokenMethods =>
                (auth # None /\ c.req.header.token = auth[1].access_token)]_vars

\* A request sent after the session record was replaced by one with another
\* token.
C6_Witness ==
    /\ last.method \in AuthMethods
    /\ last.pre # None
    /\ last.post # None
    /\ last.post[1].access_token # last.pre[1].access_token
    /\ \E c \in BagToSet(calls) :
            c.method \in TokenMethods /\ c.req.header.token = last.post[1].access_token

\* The problem fields and the field-error map an error value carries, a field
\* the value does not have being absent or empty.
ProblemFieldsOf(e) ==
    [type_ |-> IF "type_" \in DOMAIN e THEN e.type_ ELSE None,
     title |-> IF "title" \in DOMAIN e THEN e.title ELSE None,
     detail |-> IF "detail" \in DOMAIN e THEN e.detail ELSE None,
     instance |-> IF "instance" \in DOMAIN e THEN e.instance ELSE None,
     errors |-> IF "errors" \in DOMAIN e THEN e.errors ELSE EmptyMap]

\* C7 as stated: the error a method returns for a non-success response has the
\* status, the message, the problem fields and the field-error map of the
\* error handle_http_error produces for that response.
C7_EndpointErrorIsDecoded ==
    (last.method # "none" /\ NonSuccess(last)) =>
        /\ ~is_ok(last.result)
        /\ last.result.err.kind = "HttpRequestError"
        /\ last.result.err.status = handle_http_error(last.resp[1]).status
        /\ last.result.err.message = handle_http_error(last.resp[1]).message
        /\ ProblemFieldsOf(last.result.err)
                = ProblemFieldsOf(handle_http_error(last.resp[1]))

\* The body of the decoder's response is a JSON object whose "errors" is an
\* object with a list of strings under every field name.
HasFieldErrors(r) ==
    /\ "json" \in DOMAIN r.body
    /\ "obj" \in DOMAIN r.body.json
    /\ "errors" \in DOMAIN r.body.json.obj
    /\ "obj" \in DOMAIN r.body.json.obj.errors
    /\ \A k \in DOMAIN r.body.json.obj.errors.obj :
        /\ "arr" \in DOMAIN r.body.json.obj.errors.obj[k]
        /\ \A i \in DOMAIN r.body.json.obj.errors.obj[k].arr :
                "str" \in DOMAIN r.body.json.obj.errors.obj[k].arr[i]
\* That object, as a map from field name to list of messages.
FieldErrorsOf(r) ==
    LET e == r.body.json.obj.errors.obj
    IN  [k \in DOMAIN e |-> [i \in DOMAIN e[k].arr |-> e[k].arr[i].str]]

\* C8: for a JSON body with an "errors" object of message lists, the decoded
\* error's field-error map has exactly the field names of that object, each
\* with exactly its message list.
C8_FieldErrorsExact ==
    (decoded # None /\ HasFieldErrors(resp)) =>
        /\ DOMAIN decoded[1].errors = DOMAIN resp.body.json.obj.errors.obj
        /\ decoded[1].errors = FieldErrorsOf(resp)

C8_Witness ==
    /\ decoded # None
    /\ HasFieldErrors(resp)
    /\ DOMAIN decoded[1].errors = FieldNames
    /\ decoded[1].errors["Name"] = <<"too short", "required">>
    /\ decoded[1].errors["Password"] = <<>>

\* C9: for a body that is not valid JSON, the decoded error's message is the
\* body text, its type, title, detail and instance are absent and its
\* field-error map is empty.
C9_NonJsonFallback ==
    (decoded # None /\ "text" \in DOMAIN resp.body) =>
        /\ decoded[1].message = resp.body
        /\ decoded[1].type_ = None
        /\ decoded[1].title = None
        /\ decoded[1].detail = None
        /\ decoded[1].instance = None
        /\ DOMAIN decoded[1].errors = {}

C9_Witness ==
    /\ decoded # None
    /\ resp.body = Text("User not found")
    /\ decoded[1].message = Text("User not found")

\* C10: for every status and every body the decoder returns an
\* HttpRequestError with that status and with the body text as message (the
\* empty text when the body cannot be read), and it returns for every response.
C10_DecoderTotal ==
    /\ decoded = None => ENABLED Decode
    /\ decoded # None =>
        /\ decoded[1].kind = "HttpRequestError"
        /\ decoded[1].status = resp.status
        /\ decoded[1].message
                = (IF resp.body = Unreadable THEN EmptyBody ELSE resp.body)

\* A JSON body that is no object, decoded.
C10_Witness ==
    /\ decoded # None
    /\ resp.body = Json(Arr(<<Str("x")>>))
    /\ decoded[1].kind = "HttpRequestError"
    /\ decoded[1].status = 500

\* This step is the start of a call: the method was entered.
CallStep == ncalls' = ncalls + 1

\* C11: a call sends at most one request. The step that starts a call either
\* hands exactly one request to send(), or is the call of a method that
\* requires authentication on a client without session record, which returns
\* AuthNotFound with no request; the step that ends a call, whatever the
\* response was (a transport failure and a non-success status included),
\* sends nothing, so no more requests were ever sent than calls were made.
C11_OneRequestPerCall ==
    /\ [](sent <= ncalls /\ BagCardinality(calls) <= sent)
    /\ [][/\ ncalls' \in {ncalls, ncalls + 1}
          /\ CallStep =>
                \/ /\ sent' = sent + 1
                   /\ Cardinality(Started) = 1
                   /\ BagCardinality(calls') = BagCardinality(calls) + 1
                   /\ \A c \in Started : c.method \in TokenMethods => auth # None
                \/ /\ sent' = sent
                   /\ calls' = calls
                   /\ auth = None
                   /\ last'.method \in TokenMethods
                   /\ last'.result = Err(AuthNotFound)
                   /\ last'.req = None
          /\ ~CallStep => (sent' = sent /\ Started = {} /\ ReturnStep)]_vars

\* Two calls, one request: a call that failed the authentication check and a
\* call whose request met a transport failure and was not sent again.
C11_Witness ==
    /\ ncalls = 2
    /\ sent = 1
    /\ calls = EmptyBag
    /\ last.resp = Some(TransportError)

\* The kinds of JellyfinError an endpoint method returns.
EndpointErrorKinds == {"NetworkError", "AuthNotFound", "HttpRequestError"}

\* C12: a call that returned has exactly one outcome, a success value or one
\* error, and the error is a network failure, AuthNotFound or an
\* HttpRequestError; a transport failure of the request is returned as a
\* network failure, and a response with a non-success status is never
\* returned as a success.
C12_OneOutcome ==
    last.method # "none" =>
        /\ DOMAIN last.result \in {{"ok"}, {"err"}}
        /\ ~is_ok(last.result) => last.result.err.kind \in EndpointErrorKinds
        /\ last.resp = Some(TransportError) =>
                (~is_ok(last.result) /\ last.result.err.kind = "NetworkError")
        /\ NonSuccess(last) => ~is_ok(last.result)

\* delete_user answered with a non-success status and returning the error.
C12_Witness ==
    /\ last.method = "delete_user"
    /\ NonSuccess(last)
    /\ last.result.err.kind = "HttpRequestError"

\* The methods that return data, and the type each declares for it.
DataMethods ==
    {"get_users", "get_user_by_id", "get_user_by_auth", "create_user",
     "get_public_user_list"}
ResponseType(method) ==
    IF method \in {"get_users", "get_public_user_list"} THEN "VecUser" ELSE "User"
\* The body of rsp is the text of a JSON value of type T.
Deserializes(rsp, T) ==
    /\ "json" \in DOMAIN rsp.body
    /\ IF T = "User" THEN is_ok(de_User(rsp.body.json))
       ELSE is_ok(de_VecUser(rsp.body.json))

\* C13: a method that returns data, answered with a success status and a body
\* that does not deserialize into its response type, returns a network error:
\* no success value and no HttpRequestError.
C13_UndecodableIsNetworkError ==
    (/\ last.method \in DataMethods
     /\ HasStatus(last)
     /\ is_success(last.resp[1].status)
     /\ ~Deserializes(last.resp[1], ResponseType(last.method))) =>
        /\ ~is_ok(last.result)
        /\ last.result.err.kind = "NetworkError"

\* create_user answered 200 with a JSON array, which is no user record.
C13_Witness ==
    /\ last.method = "create_user"
    /\ last.resp = Some([status |-> 200, body |-> Json(Arr(<<UserJson("u1")>>))])
    /\ last.result.err.kind = "NetworkError"

\* C14: the header value has the fixed client name and version, as device the
\* device name with every space replaced by an underscore and every other
\* character kept, as device id the digest of that replaced name, and as
\* token the access token of the session record; it has no other part, so it
\* depends on nothing but the device name and the token.
C14_HeaderOfDeviceAndToken ==
    header_value # None =>
        LET h == header_value[1]
        IN  /\ DOMAIN h = {"client", "device", "device_id", "version", "token"}
            /\ h.client = "jellyfin-rs"
            /\ h.version = 1
            /\ Len(h.device) = Len(devicename)
            /\ \A i \in DOMAIN devicename :
                    h.device[i] = (IF devicename[i] = " " THEN "_" ELSE devicename[i])
            /\ h.device_id = md5_hex(h.device)
            /\ h.token = auth[1].access_token

\* A device name with two spaces and an underscore of its own.
C14_Witness ==
    /\ devicename = <<" ", "_", " ">>
    /\ header_value # None
    /\ header_value[1].device = <<"_", "_", "_">>
    /\ header_value[1].token = "tokB"

\* The HTTP method and the path listed for each endpoint method, the path as
\* its pieces between the slashes.
ListedHttp(method) ==
    IF method \in {"get_users", "get_user_by_id", "get_user_by_auth",
                   "get_public_user_list"} THEN "GET"
    ELSE IF method = "delete_user" THEN "DELETE"
    ELSE "POST"
ListedPath(method, args) ==
    CASE method = "get_users" -> <<"Users">>
      [] method \in {"get_user_by_id", "delete_user", "update_user"} ->
            <<"Users", args.id>>
      [] method = "auth_user_std" -> <<"Users", args.id, "Authenticate">>
      [] method = "update_user_conf" -> <<"Users", args.id, "Configuration">>
      [] method = "update_user_password" -> <<"Users", args.id, "Password">>
      [] method = "update_user_policy" -> <<"Users", args.id, "Policy">>
      [] method = "auth_user_name" -> <<"Users", "AuthenticateByName">>
      [] method = "user_forgot_password" -> <<"Users", "ForgotPassword">>
      [] method = "user_redeem_forgot_password_pin" ->
            <<"Users", "ForgotPassword", "Pin">>
      [] method = "get_user_by_auth" -> <<"Users", "Me">>
      [] method = "create_user" -> <<"Users", "New">>
      [] method = "get_public_user_list" -> <<"Users", "Public">>

\* C15: the request of every call has the HTTP method and the path listed for
\* the method called, with the id argument of the call in the place of {id}.
C15_ListedMethodAndPath ==
    \A c \in BagToSet(calls) :
        /\ c.method \in AuthMethods \cup TokenMethods \cup AnonMethods
        /\ c.req.http = ListedHttp(c.method)
        /\ c.req.path = ListedPath(c.method, c.args)

\* Two calls with different id arguments awaiting their responses.
C15_Witness ==
    \E c, d \in BagToSet(calls) :
        /\ c.method = "update_user_conf" /\ c.args.id = "u2"
        /\ c.req.path = <<"Users", "u2", "Configuration">>
        /\ d.method = "delete_user" /\ d.args.id = "u1"
        /\ d.req.http = "DELETE"

\* The URL argument without its trailing slashes: its longest prefix that
\* does not end in a slash.
Stripped(s) ==
    LET ends == {i \in DOMAIN s : s[i] # "/" /\ \A j \in (i + 1)..Len(s) : s[j] = "/"}
    IN  IF ends = {} THEN <<>> ELSE SubSeq(s, 1, CHOOSE i \in ends : TRUE)
\* The constructor called has returned.
CtorReturned == ctor # None /\ ctor[1].pc = "returned"
\* The constructors that authenticate.
AuthCtors == {"new_auth_std", "new_auth_name"}

\* C16: new, called with a URL that parses, returns a client without session
\* record whose base URL is the URL of the argument without its trailing
\* slashes, so that arguments differing only in their trailing slashes give
\* the same base URL; the path of the base URL ends in no empty piece unless
\* it is the root path.
C16_NewStripsTrailingSlashes ==
    (ctor # None /\ ctor[1].name = "new" /\ is_ok(parse(ctor[1].url_str))) =>
        /\ CtorReturned
        /\ is_ok(ctor[1].result)
        /\ ctor[1].result.ok.client.auth = None
        /\ ctor[1].result.ok.client.url = parse(Stripped(ctor[1].url_str)).ok
        /\ url = Some(ctor[1].result.ok.client.url)
        /\ auth = None
        /\ sent = 0
        /\ LET path == url[1].path
           IN  Len(path) > 1 => path[Len(path)] # ""

\* A URL with a path and two trailing slashes.
C16_Witness ==
    /\ CtorReturned
    /\ ctor[1].name = "new"
    /\ ctor[1].url_str = <<"http:", "/", "/", "example.com", "/", "jf", "/", "/">>
    /\ url = Some([scheme |-> "http", host |-> "example.com", path |-> <<"jf">>])

\* C17: a constructor called with a URL that does not parse returns the
\* UrlParseError, leaves no client and sends no request.
C17_UnparsableUrlIsError ==
    (ctor # None /\ ~is_ok(parse(ctor[1].url_str))) =>
        /\ CtorReturned
        /\ ~is_ok(ctor[1].result)
        /\ ctor[1].result.err.kind = "UrlParseError"
        /\ url = None
        /\ auth = None
        /\ sent = 0
        /\ ncalls = 0
        /\ calls = EmptyBag

\* new_auth_name called with a text without scheme.
C17_Witness ==
    /\ CtorReturned
    /\ ctor[1].name = "new_auth_name"
    /\ ctor[1].url_str = <<"example.com">>
    /\ ctor[1].result = Err(UrlParseError("RelativeUrlWithoutBase"))
    /\ sent = 0

\* C18: new_auth_std and new_auth_name return a client only after their
\* authentication call returned Ok, and that client holds the session record
\* of the response; when the authentication call returns an error they return
\* that error and no client is left.
C18_ClientOnlyIfAuthenticated ==
    (CtorReturned /\ ctor[1].name \in AuthCtors) =>
        /\ is_ok(ctor[1].result) =>
            /\ last.method \in AuthMethods
            /\ last.result = Ok(Unit)
            /\ SessionReturned(last)
            /\ ctor[1].result.ok.client.auth = Some(SessionIn(last))
            /\ auth = ctor[1].result.ok.client.auth
            /\ url # None
        /\ (last.method \in AuthMethods /\ ~is_ok(last.result)) =>
            /\ ctor[1].result = last.result
            /\ url = None
            /\ auth = None

\* new_auth_std whose authentication was answered with a non-success status.
C18_Witness ==
    /\ CtorReturned
    /\ ctor[1].name = "new_auth_std"
    /\ NonSuccess(last)
    /\ ctor[1].result.err.kind = "HttpRequestError"
    /\ url = None

\* The characters of a field name that are no underscore, by their places.
Kept(name) == {i \in 1..Len(name) : SubSeq(name, i, i) # "_"}
\* The place in name of its k-th character that is no underscore.
KeptAt(name, k) ==
    CHOOSE i \in Kept(name) : Cardinality({j \in Kept(name) : j <= i}) = k
\* The capital of a lower-case letter.
Capital(ch) ==
    LET i == CHOOSE i \in 1..Len(LowerCase) : SubSeq(LowerCase, i, i) = ch
    IN  SubSeq(UpperCase, i, i)
\* wire is name with its underscores left out and the first letter of every
\* word as a capital.
PerWordCapitalized(name, wire) ==
    /\ Len(wire) = Cardinality(Kept(name))
    /\ \A k \in 1..Len(wire) :
            LET i == KeptAt(name, k)
                ch == SubSeq(name, i, i)
            IN  SubSeq(wire, k, k) =
                    (IF i = 1 \/ SubSeq(name, i - 1, i - 1) = "_" THEN Capital(ch)
                     ELSE ch)
\* name is made of lower-case letters in words separated by one underscore.
LowerSnakeCase(name) ==
    /\ Len(name) > 0
    /\ \A i \in 1..Len(name) :
            \/ \E j \in 1..Len(LowerCase) : SubSeq(LowerCase, j, j) = SubSeq(name, i, i)
            \/ /\ SubSeq(name, i, i) = "_"
               /\ 1 < i /\ i < Len(name)
               /\ SubSeq(name, i + 1, i + 1) # "_"

\* C22: every field of User, UserConfiguration, UserPolicy,
\* UserAccessSchedule, UserAuth and the authenticate-by-name request is named
\* in lower_snake_case, its name on the wire is that name with every word
\* capitalized and the underscores left out, and no other field of the same
\* record has the same name on the wire.
C22_WireNamesPascalCase ==
    /\ serde_field # NoField => LowerSnakeCase(serde_field.local)
    /\ (serde_field # NoField /\ serde_field.wire # None) =>
        /\ PerWordCapitalized(serde_field.local, serde_field.wire[1])
        /\ \A other \in FieldsOf(serde_field.record) :
                PascalCase(other) = serde_field.wire[1] => other = serde_field.local

\* A field of four words.
C22_Witness ==
    /\ serde_field.record = "User"
    /\ serde_field.local = "has_configured_easy_password"
    /\ serde_field.wire = Some("HasConfiguredEasyPassword")

\* C23: a method returns an HttpRequestError only for a response with a
\* non-success status, for every such response it returns one, and the status
\* of the error is the status of that response; the error the decoder returns
\* has the status of the response it decoded.
C23_StatusOfResponse ==
    /\ (/\ last.method # "none"
        /\ ~is_ok(last.result)
        /\ last.result.err.kind = "HttpRequestError") => NonSuccess(last)
    /\ (last.method # "none" /\ NonSuccess(last)) =>
        /\ ~is_ok(last.result)
        /\ last.result.err.kind = "HttpRequestError"
        /\ last.result.err.status = last.resp[1].status
    /\ decoded # None => decoded[1].status = resp.status

\* get_user_by_id answered with the status 400, which the decoder gets too.
C23_Witness ==
    /\ last.method = "get_user_by_id"
    /\ last.resp[1].status = 400
    /\ last.result.err.status = 400
    /\ decoded # None
    /\ decoded[1].status = 400

\* C24: a step taken while the client holds a session record leaves it
\* holding one, whatever the operation and its outcome.
C24_SessionStays == [][auth # None => auth' # None]_vars

\* A repeated authentication that met a transport failure, the session
\* record still held.
C24_Witness ==
    /\ last.method \in AuthMethods
    /\ last.resp = Some(TransportError)
    /\ last.pre # None
    /\ auth # None

\* The methods that do not require authentication.
NoAuthMethods == AuthMethods \cup AnonMethods

\* C25: a method that does not require authentication never returns
\* AuthNotFound: each of its calls sends its request, and the request carries
\* the empty token, with or without a session record on the client.
C25_NoAuthMethodsSendEmptyToken ==
    /\ \A c \in BagToSet(calls) :
            c.method \in NoAuthMethods => c.req.header.token = ""
    /\ last.method \in NoAuthMethods =>
        /\ last.result # Err(AuthNotFound)
        /\ last.req # None
        /\ last.req[1].header.token = ""

\* get_public_user_list awaiting its response on a client with session
\* record, after user_forgot_password returned on it.
C25_Witness ==
    /\ auth # None
    /\ last.method = "user_forgot_password"
    /\ last.pre # None
    /\ \E c \in BagToSet(calls) :
            c.method = "get_public_user_list" /\ c.req.header.token = ""

\* The body of rsp is the text of a JSON session record.
DecodesSession(rsp) ==
    "json" \in DOMAIN rsp.body /\ is_ok(de_UserAuth(rsp.body.json))

\* C26: an authentication call whose request failed at transport level, or
\* that received a success status with a body that is no session record,
\* returns a network error and leaves the session record as it was before the
\* call.
C26_FailedDecodeKeepsSession ==
    (/\ last.method \in AuthMethods
     /\ \/ last.resp = Some(TransportError)
        \/ /\ HasStatus(last)
           /\ is_success(last.resp[1].status)
           /\ ~DecodesSession(last.resp[1])) =>
        /\ ~is_ok(last.result)
        /\ last.result.err.kind = "NetworkError"
        /\ last.post = last.pre
        /\ auth = last.pre

\* A second authentication answered 200 with a user record, which is no
\* session record: the first session is still held.
C26_Witness ==
    /\ last.method \in AuthMethods
    /\ last.resp = Some([status |-> 200, body |-> Json(UserJson("u1"))])
    /\ last.result.err.kind = "NetworkError"
    /\ last.pre # None
    /\ auth = last.pre

====
